---- MODULE Spec2Model ----
(***************************************************************************)
(* A model of eempy/read_data/read_data.py: the single-record readers      *)
(* (read_eem, read_abs, read_reference_from_text), the dataset aggregators *)
(* with their wavelength alignment (read_eem_dataset, read_abs_dataset)    *)
(* and the line scanner of read_parafac_model.                             *)
(*                                                                         *)
(* Conventions.  Python's 0-based positions are kept (n, index_pos, the    *)
(* line cursor); a sequence element k of the code is element k+1 here.     *)
(* A text is a sequence of one-character strings, a line is the sequence   *)
(* of its whitespace-separated tokens, a numeric token is an integer and   *)
(* any other token is a string.  A wavelength grid is a sequence of        *)
(* integers.  An exception that leaves a function is pc = "raised" with    *)
(* the exception's name in the function's err variable.                    *)
(***************************************************************************)
EXTENDS Integers, Sequences, FiniteSets, TLC

VARIABLES
  \* read_eem_dataset: its arguments, its locals and its position
  folder_path, filename_list, index_pos, wavelength_alignment,
  n, eem_stack, em_range_old, ex_range_old, em_range, ex_range, indexes,
  interp_calls, eem_pc, eem_err

eemVars == <<folder_path, filename_list, index_pos, wavelength_alignment,
             n, eem_stack, em_range_old, ex_range_old, em_range, ex_range,
             indexes, interp_calls, eem_pc, eem_err>>

VARIABLES
  \* read_abs_dataset: its arguments, its locals and its position
  abs_list, abs_index_pos, abs_alignment,
  abs_n, abs_stack, abs_ex_range_old, abs_ex_range, abs_indexes, abs_pc, abs_err

absVars == <<abs_list, abs_index_pos, abs_alignment, abs_n, abs_stack,
             abs_ex_range_old, abs_ex_range, abs_indexes, abs_pc, abs_err>>

VARIABLES
  \* read_eem: the file (its header line and its later lines), the number of
  \* later lines consumed, the function's locals, what it returns
  rd_header, rd_lines, rd_pos, header, idx, data, rd_result, rd_pc, rd_err

rdVars == <<rd_header, rd_lines, rd_pos, header, idx, data, rd_result, rd_pc, rd_err>>

VARIABLES
  \* read_reference_from_text: the file's lines, the number of lines read,
  \* the line last read, the function's locals
  ref_lines, ref_pos, ref_line, reference_data, ref_header, ref_pc, ref_err

refVars == <<ref_lines, ref_pos, ref_line, reference_data, ref_header, ref_pc, ref_err>>

VARIABLES
  \* read_parafac_model: the file's lines, the number of lines read, the
  \* line last read, the function's locals
  pf_lines, pf_pos, pf_line, line_count, line_count_spectra_start, line_count_ex,
  line_count_em, line_count_score, info_dict, ex_df, em_df, score_df, pf_pc

pfVars == <<pf_lines, pf_pos, pf_line, line_count, line_count_spectra_start,
            line_count_ex, line_count_em, line_count_score, info_dict,
            ex_df, em_df, score_df, pf_pc>>

vars == <<eemVars, absVars, rdVars, refVars, pfVars>>

\* ------------------------------------------------------------------ bounds

\* files in one batch
MaxFiles == 3

\* lines after the header of an EEM file
MaxLines == 3

\* lines of a reference file, the header included
MaxRefLines == 4

\* lines in one block of a PARAFAC model file
MaxBlock == 2

None == "None"

\* ------------------------------------------------------- numpy, os helpers

RECURSIVE SeqMax(_)
SeqMax(s) ==
  IF Len(s) = 1 THEN s[1]
  ELSE LET m == SeqMax(Tail(s)) IN IF s[1] > m THEN s[1] ELSE m

RECURSIVE SeqMin(_)
SeqMin(s) ==
  IF Len(s) = 1 THEN s[1]
  ELSE LET m == SeqMin(Tail(s)) IN IF s[1] < m THEN s[1] ELSE m

\* np.flipud / np.flip of a 1-d array
Flip(s) == [i \in 1..Len(s) |-> s[Len(s) + 1 - i]]

\* (np.max(g) - np.min(g)) / (g.shape[0] - 1), kept as the exact fraction
\* <<numerator, denominator>>; every grid here has at least two points.
Interval(g) == <<SeqMax(g) - SeqMin(g), Len(g) - 1>>

\* a > b and a < b on two such fractions (positive denominators)
Greater(a, b) == a[1] * b[2] > b[1] * a[2]
Less(a, b) == a[1] * b[2] < b[1] * a[2]

\* the last position of "/" in a text, 0 when there is none
RECURSIVE LastSlash(_)
LastSlash(p) ==
  IF Len(p) = 0 THEN 0
  ELSE IF p[Len(p)] = "/" THEN Len(p)
  ELSE LastSlash(SubSeq(p, 1, Len(p) - 1))

\* os.path.basename
Basename(p) == SubSeq(p, LastSlash(p) + 1, Len(p))

\* s[a:b] for 0 <= a, 0 <= b (Python clamps both to len(s))
PySlice(s, a, b) ==
  LET hi == IF b > Len(s) THEN Len(s) ELSE b
  IN  IF a >= hi THEN <<>> ELSE SubSeq(s, a + 1, hi)

\* ------------------------------------------------------------- index part

\* read_eem / read_abs, lines 45-48 and 212-215: `if index_pos:` is false for
\* None and for an empty tuple, both written <<>> here.
\* An index is a text or Python's None.
Text(s) == [none |-> FALSE, text |-> s]
NoIndex == [none |-> TRUE, text |-> <<>>]

IndexOf(file_path, pos) ==
  IF pos # <<>>
  THEN Text(PySlice(Basename(file_path), pos[1], pos[2] + 1))
  ELSE NoIndex

\* folder_path + '/' + filename
PathOf(folder, filename) == folder \o <<"/">> \o filename

\* ------------------------------------------------------- matrices, stacks

\* A matrix is known by its shape, the file it was read from (src, the
\* 0-based position in the file list plus one; 0 for a zero-filled slice),
\* the grids its values are sampled on and how often it was resampled.
\* read_eem returns intensity = data.T: one row per excitation wavelength,
\* one column per emission wavelength (lines 87-89).
MatrixOf(src, ex, em) ==
  [shape |-> <<Len(ex), Len(em)>>, src |-> src, ex |-> ex, em |-> em, interp |-> 0]

\* one slice of np.zeros([num_datfile, d1, d2])
Zeros(shape) ==
  [shape |-> shape, src |-> 0, ex |-> <<>>, em |-> <<>>, interp |-> 0]

\* eempy.eem_processing.eem_interpolation (imported at line 13): the matrix
\* resampled from the sampling (em_from, ex_from) to (em_to, ex_to).
eem_interpolation(m, em_from, ex_from, em_to, ex_to) ==
  [shape |-> <<Len(ex_to), Len(em_to)>>, src |-> m.src,
   ex |-> ex_to, em |-> em_to, interp |-> m.interp + 1]

\* the source sampling has to be the sampling of the matrix
CanInterpolate(m, em_from, ex_from) == m.shape = <<Len(ex_from), Len(em_from)>>

\* eempy.eem_processing.process_eem_stack (line 13): f applied to every slice
process_eem_stack(stack, em_from, ex_from, em_to, ex_to) ==
  [i \in 1..Len(stack) |-> eem_interpolation(stack[i], em_from, ex_from, em_to, ex_to)]

\* numpy: a value of shape `from` can be assigned to a slice of shape `to`
\* (broadcasting: each dimension equal, or 1)
CanAssign(to, from) ==
  /\ Len(to) = Len(from)
  /\ \A i \in 1..Len(to) : from[i] = to[i] \/ from[i] = 1

\* -------------------------------------------------------- read_eem_dataset

\* What read_eem returns for file k (0-based) of the list: the file record
\* holds the name and the two grids read_eem returns for it.
ReadEemOf(k, pos) ==
  LET f == filename_list[k + 1]
  IN  [intensity |-> MatrixOf(k + 1, f.ex, f.em), ex_range |-> f.ex,
       em_range |-> f.em, index |-> IndexOf(PathOf(folder_path, f.name), pos)]

\* line 146: the first file is read with index_pos=index_pos
FirstIndexPos == index_pos

\* line 155: read_eem(path, data_format=data_format), index_pos left at its
\* default None
LoopIndexPos == <<>>

\* lines 162-165 and 166-169: the grid both the new matrix and the stack are
\* resampled to on one axis
RangeTarget(interval_new, interval_old, range_new, range_old) ==
  IF Greater(interval_new, interval_old) THEN range_old ELSE range_new

\* line 170 with both comparisons turned round
ResampleNewFlipped(em_interval_new, em_interval_old, ex_interval_new, ex_interval_old) ==
  \/ Less(em_interval_new, em_interval_old)
  \/ Less(ex_interval_new, ex_interval_old)

\* line 170 with >= for >
ResampleNewOnTie(em_interval_new, em_interval_old, ex_interval_new, ex_interval_old) ==
  \/ ~Less(em_interval_new, em_interval_old)
  \/ ~Less(ex_interval_new, ex_interval_old)

\* line 170
ResampleNew(em_interval_new, em_interval_old, ex_interval_new, ex_interval_old) ==
  \/ Greater(em_interval_new, em_interval_old)
  \/ Greater(ex_interval_new, ex_interval_old)

\* line 175
ResampleStack(em_interval_new, em_interval_old, ex_interval_new, ex_interval_old) ==
  \/ Less(em_interval_new, em_interval_old)
  \/ Less(ex_interval_new, ex_interval_old)

\* lines 141-152
EemReadFirst ==
  /\ eem_pc = "start"
  /\ LET rd == ReadEemOf(0, FirstIndexPos)
         num_datfile == Len(filename_list)
     IN  /\ eem_stack' = [i \in 1..num_datfile |->
                            IF i = 1 THEN rd.intensity ELSE Zeros(rd.intensity.shape)]
         /\ indexes' = <<rd.index>>
         /\ em_range' = rd.em_range
         /\ ex_range' = rd.ex_range
         /\ em_range_old' = rd.em_range
         /\ ex_range_old' = rd.ex_range
  /\ n' = 1
  /\ eem_pc' = "loop"
  /\ UNCHANGED <<folder_path, filename_list, index_pos, wavelength_alignment,
                 interp_calls, eem_err>>
  /\ UNCHANGED <<absVars, rdVars, refVars, pfVars>>

\* lines 153-184: one iteration of the loop
EemIterate ==
  /\ eem_pc = "loop"
  /\ n < Len(filename_list)
  /\ LET rd == ReadEemOf(n, LoopIndexPos)
         em_interval_new == Interval(rd.em_range)
         em_interval_old == Interval(em_range_old)
         ex_interval_new == Interval(rd.ex_range)
         ex_interval_old == Interval(ex_range_old)
         em_range_target ==
           RangeTarget(em_interval_new, em_interval_old, rd.em_range, em_range_old)
         ex_range_target ==
           RangeTarget(ex_interval_new, ex_interval_old, rd.ex_range, ex_range_old)
         new == wavelength_alignment
                /\ ResampleNew(em_interval_new, em_interval_old,
                               ex_interval_new, ex_interval_old)
         old == wavelength_alignment
                /\ ResampleStack(em_interval_new, em_interval_old,
                                 ex_interval_new, ex_interval_old)
         \* lines 171-174
         intensity == IF new
                      THEN eem_interpolation(rd.intensity, rd.em_range, rd.ex_range,
                                             em_range_target, ex_range_target)
                      ELSE rd.intensity
         em == IF new THEN em_range_old ELSE rd.em_range
         ex == IF new THEN ex_range_old ELSE rd.ex_range
         \* lines 175-178
         fails == old /\ \E i \in 1..Len(eem_stack) :
                           ~CanInterpolate(eem_stack[i], em_range_old, ex_range_old)
         stack == IF old
                  THEN process_eem_stack(eem_stack, em_range_old, ex_range_old,
                                         em_range_target, ex_range_target)
                  ELSE eem_stack
         calls == (IF new THEN 1 ELSE 0) + (IF old THEN 1 ELSE 0)
     IN  IF fails
         THEN /\ eem_pc' = "raised"
              /\ eem_err' = "ValueError"
              /\ indexes' = Append(indexes, rd.index)
              /\ interp_calls' = interp_calls + calls
              /\ em_range' = em
              /\ ex_range' = ex
              /\ UNCHANGED <<n, eem_stack, em_range_old, ex_range_old>>
         ELSE /\ indexes' = Append(indexes, rd.index)
              /\ interp_calls' = interp_calls + calls
              \* lines 179-182: a ValueError of the assignment is caught
              /\ eem_stack' = IF CanAssign(stack[n + 1].shape, intensity.shape)
                              THEN [stack EXCEPT ![n + 1] =
                                      [intensity EXCEPT !.shape = stack[n + 1].shape]]
                              ELSE stack
              /\ em_range' = em
              /\ ex_range' = ex
              /\ em_range_old' = em
              /\ ex_range_old' = ex
              /\ n' = n + 1
              /\ UNCHANGED <<eem_pc, eem_err>>
  /\ UNCHANGED <<folder_path, filename_list, index_pos, wavelength_alignment>>
  /\ UNCHANGED <<absVars, rdVars, refVars, pfVars>>

\* line 185
EemReturn ==
  /\ eem_pc = "loop"
  /\ n = Len(filename_list)
  /\ eem_pc' = "done"
  /\ UNCHANGED <<folder_path, filename_list, index_pos, wavelength_alignment,
                 n, eem_stack, em_range_old, ex_range_old, em_range, ex_range,
                 indexes, interp_calls, eem_err>>
  /\ UNCHANGED <<absVars, rdVars, refVars, pfVars>>

\* -------------------------------------------------------- read_abs_dataset

\* A spectrum is known by its length, the file it was read from (0 for a
\* zero-filled row), the grid its values are sampled on and how often it was
\* resampled.
SpectrumOf(src, ex) == [len |-> Len(ex), src |-> src, ex |-> ex, interp |-> 0]

ZeroRow(len) == [len |-> len, src |-> 0, ex |-> <<>>, interp |-> 0]

\* read_abs, lines 212-237, for file k (0-based) of the list: the file record
\* holds the name and the wavelengths in file order; both lists are flipped.
ReadAbsOf(k) ==
  LET f == abs_list[k + 1]
  IN  [absorbance |-> SpectrumOf(k + 1, Flip(f.ex)), ex_range |-> Flip(f.ex),
       index |-> IndexOf(PathOf(folder_path, f.name), abs_index_pos)]

\* scipy.interpolate.interp1d(x, y): x and y must be equal in length
CanInterp1d(x, y) == Len(x) = y.len

\* f(x_new) with bounds_error left at its default: every new point must lie
\* in the range of x
InBounds(x, x_new) ==
  \A i \in 1..Len(x_new) : SeqMin(x) <= x_new[i] /\ x_new[i] <= SeqMax(x)

\* interp1d(x, y)(x_new)
Interp1d(y, x_new) ==
  [len |-> Len(x_new), src |-> y.src, ex |-> x_new, interp |-> y.interp + 1]

\* lines 243-253
AbsReadFirst ==
  /\ abs_pc = "start"
  /\ LET rd == ReadAbsOf(0)
         num_datfile == Len(abs_list)
     IN  /\ abs_stack' = [i \in 1..num_datfile |->
                            IF i = 1 THEN rd.absorbance ELSE ZeroRow(rd.absorbance.len)]
         /\ abs_indexes' = <<rd.index>>
         /\ abs_ex_range' = rd.ex_range
         /\ abs_ex_range_old' = rd.ex_range
  /\ abs_n' = 1
  /\ abs_pc' = "loop"
  /\ UNCHANGED <<abs_list, abs_index_pos, abs_alignment, abs_err>>
  /\ UNCHANGED <<eemVars, rdVars, refVars, pfVars>>

\* line 271: the running grid after file n
AbsRunningGrid(ex_new, ex_old) == ex_new

\* lines 254-271: one iteration of the loop
AbsIterate ==
  /\ abs_pc = "loop"
  /\ abs_n < Len(abs_list)
  /\ LET rd == ReadAbsOf(abs_n)
         num_datfile == Len(abs_list)
         ex_interval_new == Interval(rd.ex_range)
         ex_interval_old == Interval(abs_ex_range_old)
         coarser == abs_alignment /\ Greater(ex_interval_new, ex_interval_old)
         finer == abs_alignment /\ Less(ex_interval_new, ex_interval_old)
         \* lines 261-263
         fails_new == coarser /\ ~InBounds(rd.ex_range, abs_ex_range_old)
         absorbance == IF coarser THEN Interp1d(rd.absorbance, abs_ex_range_old)
                       ELSE rd.absorbance
         \* lines 264-269
         fails_old == finer /\ \E i \in 1..abs_n :
                         \/ ~CanInterp1d(abs_ex_range_old, abs_stack[i])
                         \/ ~InBounds(abs_ex_range_old, rd.ex_range)
         stack == IF finer
                  THEN [i \in 1..num_datfile |->
                          IF i <= abs_n THEN Interp1d(abs_stack[i], rd.ex_range)
                          ELSE ZeroRow(absorbance.len)]
                  ELSE abs_stack
         \* line 270, not in a try block
         fails_assign == ~CanAssign(<<stack[abs_n + 1].len>>, <<absorbance.len>>)
     IN  /\ abs_indexes' = Append(abs_indexes, rd.index)
         /\ abs_ex_range' = rd.ex_range
         /\ IF fails_new \/ fails_old
            THEN /\ abs_pc' = "raised"
                 /\ abs_err' = "ValueError: interp1d"
                 /\ UNCHANGED <<abs_n, abs_stack, abs_ex_range_old>>
            ELSE IF fails_assign
            THEN /\ abs_pc' = "raised"
                 /\ abs_err' = "ValueError: could not broadcast"
                 /\ abs_stack' = stack
                 /\ UNCHANGED <<abs_n, abs_ex_range_old>>
            ELSE /\ abs_stack' = [stack EXCEPT ![abs_n + 1] =
                                    [absorbance EXCEPT !.len = stack[abs_n + 1].len]]
                 /\ abs_ex_range_old' = AbsRunningGrid(rd.ex_range, abs_ex_range_old)
                 /\ abs_n' = abs_n + 1
                 /\ UNCHANGED <<abs_pc, abs_err>>
  /\ UNCHANGED <<abs_list, abs_index_pos, abs_alignment>>
  /\ UNCHANGED <<eemVars, rdVars, refVars, pfVars>>

\* line 272
AbsReturn ==
  /\ abs_pc = "loop"
  /\ abs_n = Len(abs_list)
  /\ abs_pc' = "done"
  /\ UNCHANGED <<abs_list, abs_index_pos, abs_alignment, abs_n, abs_stack,
                 abs_ex_range_old, abs_ex_range, abs_indexes, abs_err>>
  /\ UNCHANGED <<eemVars, rdVars, refVars, pfVars>>

\* ------------------------------------------------------------------ read_eem

\* tokens: one float() accepts, with its value, and one it rejects
Num(v) == [num |-> TRUE, val |-> v]
Word == [num |-> FALSE, val |-> 0]

\* line 55-56: re.findall(r"\d+", firstline) mapped to int; a token without
\* digits yields nothing
RECURSIVE Digits(_)
Digits(line) ==
  IF line = <<>> THEN <<>>
  ELSE IF line[1].num THEN <<line[1].val>> \o Digits(Tail(line))
  ELSE Digits(Tail(line))

\* list(map(float, tokens)): every token must parse
AllNum(tokens) == \A i \in 1..Len(tokens) : tokens[i].num
Floats(tokens) == [i \in 1..Len(tokens) |-> tokens[i].val]

\* data.T of a matrix of rows with ncols columns
Transpose(rows, ncols) ==
  [c \in 1..ncols |-> [r \in 1..Len(rows) |-> rows[r][c]]]

\* lines 87-91: the emission grid is flipped when it starts descending; the
\* intensity is data.T as it stands
EmissionOrder(em, intensity) ==
  IF em[1] > em[2]
  THEN [em_range |-> Flip(em), intensity |-> intensity]
  ELSE [em_range |-> em, intensity |-> intensity]

\* lines 92-93
ExcitationOrder(ex) == IF ex[1] > ex[2] THEN Flip(ex) ELSE ex

\* lines 49-61: the header line; data starts as one row of zeros
RdOpen ==
  /\ rd_pc = "start"
  /\ header' = Digits(rd_header)
  /\ data' = <<[c \in 1..Len(Digits(rd_header)) |-> 0]>>
  /\ idx' = <<>>
  /\ rd_pos' = 0
  /\ rd_pc' = "loop"
  /\ UNCHANGED <<rd_header, rd_lines, rd_result, rd_err>>
  /\ UNCHANGED <<eemVars, absVars, refVars, pfVars>>

\* lines 62-79: one line of the file
RdLine ==
  /\ rd_pc = "loop"
  /\ rd_pos < Len(rd_lines)
  /\ LET line == rd_lines[rd_pos + 1]
     IN  IF line = <<>>
         THEN \* line 63, outside the try block
              /\ rd_pc' = "raised"
              /\ rd_err' = "IndexError: split()[0]"
              /\ UNCHANGED <<rd_pos, idx, data>>
         ELSE IF ~line[1].num
         THEN \* line 66 raises ValueError, line 77 catches it
              /\ rd_pos' = rd_pos + 1
              /\ UNCHANGED <<idx, data, rd_pc, rd_err>>
         ELSE IF ~AllNum(Tail(line))
         THEN \* line 69 raises ValueError after line 67 appended
              /\ idx' = Append(idx, line[1].val)
              /\ rd_pos' = rd_pos + 1
              /\ UNCHANGED <<data, rd_pc, rd_err>>
         ELSE IF Len(Tail(line)) # Len(header)
         THEN \* lines 72-76: np.concatenate raises ValueError, break
              /\ idx' = Append(idx, line[1].val)
              /\ rd_pc' = "post"
              /\ UNCHANGED <<rd_pos, data, rd_err>>
         ELSE /\ idx' = Append(idx, line[1].val)
              /\ data' = Append(data, Floats(Tail(line)))
              /\ rd_pos' = rd_pos + 1
              /\ UNCHANGED <<rd_pc, rd_err>>
  /\ UNCHANGED <<rd_header, rd_lines, header, rd_result>>
  /\ UNCHANGED <<eemVars, absVars, refVars, pfVars>>

\* line 62: readline returned '' at the end of the file
RdEof ==
  /\ rd_pc = "loop"
  /\ rd_pos = Len(rd_lines)
  /\ rd_pc' = "post"
  /\ UNCHANGED <<rd_header, rd_lines, rd_pos, header, idx, data, rd_result, rd_err>>
  /\ UNCHANGED <<eemVars, absVars, refVars, pfVars>>

\* lines 81-97
RdReturn ==
  /\ rd_pc = "post"
  /\ IF Len(idx) < 2
     THEN /\ rd_pc' = "raised"
          /\ rd_err' = "IndexError: em_range[1]"
          /\ UNCHANGED rd_result
     ELSE IF Len(header) < 2
     THEN /\ rd_pc' = "raised"
          /\ rd_err' = "IndexError: ex_range[1]"
          /\ UNCHANGED rd_result
     ELSE LET o == EmissionOrder(idx, Transpose(Tail(data), Len(header)))
          IN  /\ rd_result' = [intensity |-> o.intensity,
                               ex_range |-> ExcitationOrder(header),
                               em_range |-> o.em_range]
              /\ rd_pc' = "done"
              /\ UNCHANGED rd_err
  /\ UNCHANGED <<rd_header, rd_lines, rd_pos, header, idx, data>>
  /\ UNCHANGED <<eemVars, absVars, refVars, pfVars>>

\* ---------------------------------------------------- read_reference_from_text

\* readline at the end of the file returns '', which is no line of a file
Eof == <<[num |-> FALSE, val |-> -1]>>

\* f.readline() with ref_pos lines read so far
RefReadline == IF ref_pos < Len(ref_lines) THEN ref_lines[ref_pos + 1] ELSE Eof

\* line.split() of a line: '' has no tokens
Split(line) == IF line = Eof THEN <<>> ELSE line

\* lines 301-303: the header line, read outside any try block
RefOpen ==
  /\ ref_pc = "start"
  /\ ref_line' = RefReadline
  /\ ref_pos' = IF ref_pos < Len(ref_lines) THEN ref_pos + 1 ELSE ref_pos
  /\ IF Split(RefReadline) = <<>>
     THEN /\ ref_pc' = "raised"
          /\ ref_err' = "IndexError"
          /\ UNCHANGED ref_header
     ELSE /\ ref_header' = <<Split(RefReadline)[1]>>
          /\ ref_pc' = "loop"
          /\ UNCHANGED ref_err
  /\ UNCHANGED <<ref_lines, reference_data>>
  /\ UNCHANGED <<eemVars, absVars, rdVars, pfVars>>

\* lines 304-309: one pass of `while line:`, which catches IndexError only
RefLine ==
  /\ ref_pc = "loop"
  /\ ref_line # Eof
  /\ ref_line' = RefReadline
  /\ ref_pos' = IF ref_pos < Len(ref_lines) THEN ref_pos + 1 ELSE ref_pos
  /\ LET tokens == Split(RefReadline)
     IN  IF tokens = <<>>
         THEN \* IndexError, caught
              UNCHANGED <<reference_data, ref_pc, ref_err>>
         ELSE IF ~tokens[1].num
         THEN \* float raises ValueError
              /\ ref_pc' = "raised"
              /\ ref_err' = "ValueError"
              /\ UNCHANGED reference_data
         ELSE /\ reference_data' = Append(reference_data, tokens[1].val)
              /\ UNCHANGED <<ref_pc, ref_err>>
  /\ UNCHANGED <<ref_lines, ref_header>>
  /\ UNCHANGED <<eemVars, absVars, rdVars, pfVars>>

\* lines 310-311: the loop ends on '' and the function returns
RefReturn ==
  /\ ref_pc = "loop"
  /\ ref_line = Eof
  /\ ref_pc' = "done"
  /\ UNCHANGED <<ref_lines, ref_pos, ref_line, reference_data, ref_header, ref_err>>
  /\ UNCHANGED <<eemVars, absVars, rdVars, pfVars>>

\* ---------------------------------------------------------- read_parafac_model

\* A line of a PARAFAC model file is known by the markers the scanner looks
\* for in it and by its text before the first tab; '' has neither.
PfEof == [marks |-> {}, key |-> ""]

\* a pd.read_csv not made yet
NoFrame == [skiprows |-> -1, nrows |-> -1]

\* `marker in line`
In(marker, l) == marker \in l.marks

\* f.readline().strip() with pf_pos lines read so far
PfReadline == IF pf_pos < Len(pf_lines) THEN pf_lines[pf_pos + 1] ELSE PfEof

PfAdvance == IF pf_pos < Len(pf_lines) THEN pf_pos + 1 ELSE pf_pos

\* pd.read_csv(filepath, skiprows=s, nrows=k): the window of lines it reads
Frame(s, k) == [skiprows |-> s, nrows |-> k]

\* lines 345-347
PfOpen ==
  /\ pf_pc = "start"
  /\ pf_line' = PfReadline
  /\ pf_pos' = PfAdvance
  /\ line_count' = 0
  /\ pf_pc' = "comment1"
  /\ UNCHANGED <<pf_lines, line_count_spectra_start, line_count_ex, line_count_em,
                 line_count_score, info_dict, ex_df, em_df, score_df>>
  /\ UNCHANGED <<eemVars, absVars, rdVars, refVars>>

\* lines 348-353: while '#' in line
PfComment1 ==
  /\ pf_pc = "comment1"
  /\ IF In("#", pf_line)
     THEN /\ pf_line' = PfReadline
          /\ pf_pos' = PfAdvance
          /\ line_count' = line_count + 1
          /\ UNCHANGED pf_pc
     ELSE /\ pf_pc' = "info"
          /\ UNCHANGED <<pf_line, pf_pos, line_count>>
  /\ UNCHANGED <<pf_lines, line_count_spectra_start, line_count_ex, line_count_em,
                 line_count_score, info_dict, ex_df, em_df, score_df>>
  /\ UNCHANGED <<eemVars, absVars, rdVars, refVars>>

\* lines 354-361: while '#' not in line
PfInfo ==
  /\ pf_pc = "info"
  /\ IF ~In("#", pf_line)
     THEN /\ info_dict' = info_dict \cup {pf_line.key}
          /\ pf_line' = PfReadline
          /\ pf_pos' = PfAdvance
          /\ line_count' = line_count + 1
          /\ UNCHANGED pf_pc
     ELSE /\ pf_pc' = "comment2"
          /\ UNCHANGED <<pf_line, pf_pos, line_count, info_dict>>
  /\ UNCHANGED <<pf_lines, line_count_spectra_start, line_count_ex, line_count_em,
                 line_count_score, ex_df, em_df, score_df>>
  /\ UNCHANGED <<eemVars, absVars, rdVars, refVars>>

\* lines 362-367: while '#' in line
PfComment2 ==
  /\ pf_pc = "comment2"
  /\ IF In("#", pf_line)
     THEN /\ pf_line' = PfReadline
          /\ pf_pos' = PfAdvance
          /\ line_count_spectra_start' = line_count
          /\ line_count' = line_count + 1
          /\ UNCHANGED pf_pc
     ELSE /\ pf_pc' = "ex"
          /\ UNCHANGED <<pf_line, pf_pos, line_count, line_count_spectra_start>>
  /\ UNCHANGED <<pf_lines, line_count_ex, line_count_em, line_count_score,
                 info_dict, ex_df, em_df, score_df>>
  /\ UNCHANGED <<eemVars, absVars, rdVars, refVars>>

\* lines 368-376: while "Ex" in line, then the excitation loadings
PfEx ==
  /\ pf_pc = "ex"
  /\ IF In("Ex", pf_line)
     THEN /\ pf_line' = PfReadline
          /\ pf_pos' = PfAdvance
          /\ line_count' = line_count + 1
          /\ UNCHANGED <<pf_pc, line_count_ex, ex_df>>
     ELSE /\ line_count_ex' = line_count
          /\ ex_df' = Frame(line_count_spectra_start + 1,
                            line_count - line_count_spectra_start - 1)
          /\ pf_pc' = "em"
          /\ UNCHANGED <<pf_line, pf_pos, line_count>>
  /\ UNCHANGED <<pf_lines, line_count_spectra_start, line_count_em,
                 line_count_score, info_dict, em_df, score_df>>
  /\ UNCHANGED <<eemVars, absVars, rdVars, refVars>>

\* lines 377-385: while "Em" in line, then the emission loadings
PfEm ==
  /\ pf_pc = "em"
  /\ IF In("Em", pf_line)
     THEN /\ pf_line' = PfReadline
          /\ pf_pos' = PfAdvance
          /\ line_count' = line_count + 1
          /\ UNCHANGED <<pf_pc, line_count_em, em_df>>
     ELSE /\ line_count_em' = line_count
          /\ em_df' = Frame(line_count_ex, line_count - line_count_ex)
          /\ pf_pc' = "comment3"
          /\ UNCHANGED <<pf_line, pf_pos, line_count>>
  /\ UNCHANGED <<pf_lines, line_count_spectra_start, line_count_ex,
                 line_count_score, info_dict, ex_df, score_df>>
  /\ UNCHANGED <<eemVars, absVars, rdVars, refVars>>

\* lines 386-391: while '#' in line
PfComment3 ==
  /\ pf_pc = "comment3"
  /\ IF In("#", pf_line)
     THEN /\ pf_line' = PfReadline
          /\ pf_pos' = PfAdvance
          /\ line_count' = line_count + 1
          /\ UNCHANGED <<pf_pc, line_count_score>>
     ELSE /\ line_count_score' = line_count
          /\ pf_pc' = "score"
          /\ UNCHANGED <<pf_line, pf_pos, line_count>>
  /\ UNCHANGED <<pf_lines, line_count_spectra_start, line_count_ex, line_count_em,
                 info_dict, ex_df, em_df, score_df>>
  /\ UNCHANGED <<eemVars, absVars, rdVars, refVars>>

\* lines 392-394: while 'Score' in line
PfScore ==
  /\ pf_pc = "score"
  /\ IF In("Score", pf_line)
     THEN /\ pf_line' = PfReadline
          /\ pf_pos' = PfAdvance
          /\ line_count' = line_count + 1
          /\ UNCHANGED pf_pc
     ELSE /\ pf_pc' = "end"
          /\ UNCHANGED <<pf_line, pf_pos, line_count>>
  /\ UNCHANGED <<pf_lines, line_count_spectra_start, line_count_ex, line_count_em,
                 line_count_score, info_dict, ex_df, em_df, score_df>>
  /\ UNCHANGED <<eemVars, absVars, rdVars, refVars>>

\* lines 395-407: while '#' in line; the next line is read only inside
\* `if 'end' in line`
PfEnd ==
  /\ pf_pc = "end"
  /\ IF In("#", pf_line)
     THEN IF In("end", pf_line)
          THEN /\ score_df' = Frame(line_count_score, line_count - line_count_score)
               /\ pf_line' = PfReadline
               /\ pf_pos' = PfAdvance
               /\ UNCHANGED pf_pc
          ELSE UNCHANGED <<score_df, pf_line, pf_pos, pf_pc>>
     ELSE /\ pf_pc' = "done"
          /\ UNCHANGED <<score_df, pf_line, pf_pos>>
  /\ UNCHANGED <<pf_lines, line_count, line_count_spectra_start, line_count_ex,
                 line_count_em, line_count_score, info_dict, ex_df, em_df>>
  /\ UNCHANGED <<eemVars, absVars, rdVars, refVars>>

\* ------------------------------------------ inputs, initial states, specifications

\* the grids of the files of a batch
Grids == { <<1, 2, 3, 4, 5>>, <<1, 3, 5>>, <<1, 5>>, <<1, 2, 3>> }

Name1 == <<"E","E","M","_","2","0","2","4","_","0","1","_","0","1","_","P","E","M",".","d","a","t">>
Name2 == <<"E","E","M","_","2","0","2","4","_","0","2","_","1","5","_","P","E","M",".","d","a","t">>
Name3 == <<"b","l","a","n","k","_","B","E","M",".","d","a","t">>

Folder == <<".","/","d","a","t","a">>

\* the wavelengths of the absorbance files, in file order
AbsGrids == { <<1, 2, 3, 4, 5>>, <<1, 3, 5>>, <<1, 5>>, <<1, 2, 3>>, <<2, 4>> }

\* the lines of an EEM file after its header: blank, footer, a row with a
\* value that is no number, a short row, rows of two intensities
EemLines ==
  {<<>>, <<Word>>, <<Num(2), Word, Num(7)>>, <<Num(2), Num(7)>>}
  \cup {<<Num(e)>> \o r : e \in {1, 2, 3}, r \in {<<Num(7), Num(8)>>, <<Num(9), Num(6)>>}}

EemHeaders == {<<Word, Num(1), Num(2)>>, <<Num(2), Num(1)>>}

\* the lines of a reference file: blank, a word, a number, a number
\* followed by a word
RefLines == {<<>>, <<Word>>, <<Num(1)>>, <<Num(2)>>, <<Num(3), Word>>}

\* k copies of one line
Rep(k, l) == [i \in 1..k |-> l]

PfComment == [marks |-> {"#"}, key |-> "#"]
PfInfoLine(i) == [marks |-> {}, key |-> IF i = 1 THEN "Name" ELSE "Ecozone"]
PfExcitation == [marks |-> {"#", "Ex", "Em"}, key |-> "# Excitation/Emission (Ex, Em)"]
PfExRow == [marks |-> {"Ex"}, key |-> "Ex"]
PfEmRow == [marks |-> {"Em"}, key |-> "Em"]
PfScoreComment == [marks |-> {"#", "Score"}, key |-> "# Score"]
PfScoreRow == [marks |-> {"Score"}, key |-> "Score"]
PfEndLine == [marks |-> {"#", "end"}, key |-> "# end #"]

\* the terminating comment block: absent, the 'end' line alone, a comment
\* line before it, a comment line after it
PfEndBlocks ==
  {<<>>, <<PfEndLine>>, <<PfComment, PfEndLine>>, <<PfEndLine, PfComment>>}

\* the files that follow the block sequence of the format
PfFiles ==
  { Rep(c1, PfComment) \o [i \in 1..m |-> PfInfoLine(i)]
      \o Rep(c2 - 1, PfComment) \o <<PfExcitation>>
      \o Rep(x, PfExRow) \o Rep(e, PfEmRow)
      \o Rep(c3, PfComment) \o (IF sc > 0 THEN <<PfScoreComment>> ELSE <<>>)
      \o Rep(sc, PfScoreRow) \o eb :
    c1 \in 1..MaxBlock, m \in 1..MaxBlock, c2 \in 1..MaxBlock,
    x \in 1..MaxBlock, e \in 1..MaxBlock, c3 \in 0..1, sc \in 0..MaxBlock,
    eb \in PfEndBlocks }

EemLocals ==
  /\ n = 0 /\ eem_stack = <<>> /\ em_range_old = <<>> /\ ex_range_old = <<>>
  /\ em_range = <<>> /\ ex_range = <<>> /\ indexes = <<>>
  /\ interp_calls = 0 /\ eem_pc = "start" /\ eem_err = None
  /\ folder_path = Folder

EemIdle ==
  /\ EemLocals
  /\ filename_list = <<>> /\ index_pos = <<>> /\ wavelength_alignment = FALSE

AbsLocals ==
  /\ abs_n = 0 /\ abs_stack = <<>> /\ abs_ex_range_old = <<>>
  /\ abs_ex_range = <<>> /\ abs_indexes = <<>> /\ abs_pc = "start"
  /\ abs_err = None

AbsIdle ==
  /\ AbsLocals
  /\ abs_list = <<>> /\ abs_index_pos = <<>> /\ abs_alignment = FALSE

RdLocals ==
  /\ rd_pos = 0 /\ header = <<>> /\ idx = <<>> /\ data = <<>>
  /\ rd_result = <<>> /\ rd_pc = "start" /\ rd_err = None

RdIdle == RdLocals /\ rd_header = <<>> /\ rd_lines = <<>>

RefLocals ==
  /\ ref_pos = 0 /\ ref_line = Eof /\ reference_data = <<>>
  /\ ref_header = <<>> /\ ref_pc = "start" /\ ref_err = None

RefIdle == RefLocals /\ ref_lines = <<>>

PfLocals ==
  /\ pf_pos = 0 /\ pf_line = PfEof /\ line_count = 0
  /\ line_count_spectra_start = -1 /\ line_count_ex = -1 /\ line_count_em = -1
  /\ line_count_score = -1 /\ info_dict = {} /\ ex_df = NoFrame
  /\ em_df = NoFrame /\ score_df = NoFrame /\ pf_pc = "start"

PfIdle == PfLocals /\ pf_lines = <<>>

\* a batch whose files differ in their grids
InitAlign ==
  /\ EemLocals /\ AbsIdle /\ RdIdle /\ RefIdle /\ PfIdle
  /\ \E k \in 1..MaxFiles :
       filename_list \in [1..k -> [name : {Name1}, ex : Grids, em : Grids]]
  /\ index_pos = <<>>
  /\ wavelength_alignment \in BOOLEAN

\* a batch whose files differ in their names
InitIndex ==
  /\ EemLocals /\ AbsIdle /\ RdIdle /\ RefIdle /\ PfIdle
  /\ \E k \in 1..MaxFiles :
       filename_list \in [1..k -> [name : {Name1, Name2, Name3},
                                   ex : {<<1, 3, 5>>}, em : {<<1, 2, 3, 4, 5>>}]]
  /\ index_pos \in {<<>>, <<4, 13>>, <<0, 2>>, <<6, 30>>}
  /\ wavelength_alignment = FALSE

NextEem == EemReadFirst \/ EemIterate \/ EemReturn

SpecAlign == InitAlign /\ [][NextEem]_vars

SpecIndex == InitIndex /\ [][NextEem]_vars

InitAbs ==
  /\ EemIdle /\ AbsLocals /\ RdIdle /\ RefIdle /\ PfIdle
  /\ \E k \in 1..MaxFiles :
       abs_list \in [1..k -> [name : {Name1, Name2}, ex : AbsGrids]]
  /\ abs_index_pos \in {<<>>, <<4, 13>>}
  /\ abs_alignment \in BOOLEAN

NextAbs == AbsReadFirst \/ AbsIterate \/ AbsReturn

SpecAbs == InitAbs /\ [][NextAbs]_vars

InitRead ==
  /\ EemIdle /\ AbsIdle /\ RdLocals /\ RefIdle /\ PfIdle
  /\ rd_header \in EemHeaders
  /\ \E k \in 0..MaxLines : rd_lines \in [1..k -> EemLines]

NextRead == RdOpen \/ RdLine \/ RdEof \/ RdReturn

SpecRead == InitRead /\ [][NextRead]_vars

InitRef ==
  /\ EemIdle /\ AbsIdle /\ RdIdle /\ RefLocals /\ PfIdle
  /\ \E k \in 0..MaxRefLines : ref_lines \in [1..k -> RefLines]

NextRef == RefOpen \/ RefLine \/ RefReturn

SpecRef == InitRef /\ [][NextRef]_vars

InitParafac ==
  /\ EemIdle /\ AbsIdle /\ RdIdle /\ RefIdle /\ PfLocals
  /\ pf_lines \in PfFiles

NextParafac ==
  PfOpen \/ PfComment1 \/ PfInfo \/ PfComment2 \/ PfEx \/ PfEm
    \/ PfComment3 \/ PfScore \/ PfEnd

\* the function runs alone and, once called, takes its next step
SpecParafac == InitParafac /\ [][NextParafac]_vars /\ WF_vars(NextParafac)

\* ------------------------------------------------------------------ claims

\* files 0..k-1 of the list have all been stacked
Processed(k) == eem_pc \in {"loop", "done"} /\ n >= k

\* the intervals of files 0..k-1 on one axis
EmIntervals(k) == [i \in 1..k |-> Interval(filename_list[i].em)]
ExIntervals(k) == [i \in 1..k |-> Interval(filename_list[i].ex)]

SameInterval(a, b) == ~Greater(a, b) /\ ~Less(a, b)

\* iv is the largest of ivs
Largest(iv, ivs) ==
  /\ \E i \in 1..Len(ivs) : SameInterval(ivs[i], iv)
  /\ \A i \in 1..Len(ivs) : ~Greater(ivs[i], iv)

\* the smaller of two intervals
Smaller(a, b) == IF Less(a, b) THEN a ELSE b

\* C1 as stated: with alignment, after each file the running grid on each
\* axis, and the grid returned, has the largest interval of the files read
\* so far (the coarsest grid).
C1_CoarsestSoFar ==
  (wavelength_alignment /\ Processed(1)) =>
    /\ Largest(Interval(em_range_old), EmIntervals(n))
    /\ Largest(Interval(ex_range_old), ExIntervals(n))
    /\ (eem_pc = "done" =>
          /\ Largest(Interval(em_range), EmIntervals(n))
          /\ Largest(Interval(ex_range), ExIntervals(n)))

\* file n (the one about to be read) is coarser than the running grid on one
\* axis and finer on the other
Mixed ==
  LET f == filename_list[n + 1]
  IN  \/ /\ Greater(Interval(f.em), Interval(em_range_old))
         /\ Less(Interval(f.ex), Interval(ex_range_old))
      \/ /\ Less(Interval(f.em), Interval(em_range_old))
         /\ Greater(Interval(f.ex), Interval(ex_range_old))

\* C1 amended: with alignment, each file that is stacked leaves the running
\* grid on each axis with the smaller of the running interval and the file's
\* interval (the finest grid so far), except a file coarser on one axis and
\* finer on the other, which leaves both running grids as they were; the
\* grids returned are the running grids.
C1_FinestUnlessMixed ==
  [][(wavelength_alignment /\ eem_pc = "loop" /\ n' = n + 1) =>
       LET f == filename_list[n + 1]
       IN  /\ IF Mixed
              THEN em_range_old' = em_range_old /\ ex_range_old' = ex_range_old
              ELSE /\ SameInterval(Interval(em_range_old'),
                                   Smaller(Interval(f.em), Interval(em_range_old)))
                   /\ SameInterval(Interval(ex_range_old'),
                                   Smaller(Interval(f.ex), Interval(ex_range_old)))
           /\ em_range' = em_range_old'
           /\ ex_range' = ex_range_old']_vars

\* C1 witness: a batch read to its end whose returned emission grid is finer
\* than the first file's and whose excitation grid is the first file's
C1_FinerAdopted ==
  /\ wavelength_alignment /\ eem_pc = "done" /\ n >= 3
  /\ Less(Interval(em_range), Interval(filename_list[1].em))
  /\ Greater(Interval(filename_list[2].em), Interval(filename_list[1].em))

\* C2 as stated: with alignment, after each file the two per-slice
\* dimensions of the stack are the lengths of the running grids, and at
\* return those of the grids returned.
C2_StackMatchesGrids ==
  (wavelength_alignment /\ Processed(1)) =>
    /\ eem_stack[1].shape = <<Len(ex_range_old), Len(em_range_old)>>
    /\ (eem_pc = "done" => eem_stack[1].shape = <<Len(ex_range), Len(em_range)>>)

\* every file of the batch has the grids of the first
SharedGrids ==
  \A i \in 1..Len(filename_list) :
     /\ filename_list[i].ex = filename_list[1].ex
     /\ filename_list[i].em = filename_list[1].em

\* C3: with alignment and one grid shared by all files, no call of the
\* interpolation is made, every slice stacked is the matrix read from its
\* file, and the grids returned are the shared grids.
C3_SharedGridsUntouched ==
  (wavelength_alignment /\ SharedGrids /\ eem_pc # "start") =>
    /\ interp_calls = 0
    /\ eem_pc # "raised"
    /\ \A i \in 1..n :
         eem_stack[i] = MatrixOf(i, filename_list[i].ex, filename_list[i].em)
    /\ ex_range = filename_list[1].ex
    /\ em_range = filename_list[1].em

\* C3 witness: a batch of MaxFiles files on one grid, read to its end
C3_SharedBatchDone ==
  /\ wavelength_alignment /\ SharedGrids /\ eem_pc = "done"
  /\ Len(filename_list) = MaxFiles /\ n = MaxFiles

\* C4 as stated, for read_abs_dataset: a record whose shape does not match
\* the stack does not abort the batch.
C4_MismatchDoesNotAbort ==
  ~(abs_pc = "raised" /\ abs_err = "ValueError: could not broadcast")

\* C6 as stated: with index_pos = (start, end) the index list has one entry
\* per file, entry i being characters start..end of the base name of file i.
C6_IndexOfEveryFile ==
  (index_pos # <<>> /\ eem_pc = "done") =>
    /\ Len(indexes) = Len(filename_list)
    /\ \A i \in 1..Len(filename_list) :
         indexes[i] =
           Text(PySlice(filename_list[i].name, index_pos[1], index_pos[2] + 1))

\* C10 as stated: with alignment, after each file the running grid has as
\* many points as the stack has columns and is the grid of every spectrum
\* stacked so far.
C10_RunningGridIsStackGrid ==
  (abs_alignment /\ abs_pc \in {"loop", "done"} /\ abs_n >= 1) =>
    /\ Len(abs_ex_range_old) = abs_stack[1].len
    /\ \A i \in 1..abs_n : abs_stack[i].ex = abs_ex_range_old
    /\ (abs_pc = "done" => Len(abs_ex_range) = abs_stack[1].len)

\* the file's lines are rows of as many intensities as the header has
\* wavelengths, their emission wavelengths strictly descending
DescendingFile ==
  /\ Len(rd_lines) >= 2
  /\ \A i \in 1..Len(rd_lines) :
       /\ rd_lines[i] # <<>>
       /\ AllNum(rd_lines[i])
       /\ Len(rd_lines[i]) = Len(Digits(rd_header)) + 1
  /\ \A i \in 1..(Len(rd_lines) - 1) : rd_lines[i][1].val > rd_lines[i + 1][1].val

AscendingHeader ==
  LET h == Digits(rd_header)
  IN  \A i \in 1..(Len(h) - 1) : h[i] < h[i + 1]

\* C5 as stated: a file with descending emission wavelengths is returned
\* with a strictly ascending emission grid, the intensity at emission
\* position j being the one of the line that carries em_range[j]; an
\* ascending excitation grid and the excitation axis keep the file's order.
C5_RowsFollowEmissionGrid ==
  (rd_pc = "done" /\ DescendingFile /\ AscendingHeader) =>
    /\ \A j \in 1..(Len(rd_result.em_range) - 1) :
         rd_result.em_range[j] < rd_result.em_range[j + 1]
    /\ rd_result.ex_range = Digits(rd_header)
    /\ \A j \in 1..Len(rd_result.em_range) : \A i \in 1..Len(rd_lines) :
         rd_lines[i][1].val = rd_result.em_range[j] =>
           \A c \in 1..Len(rd_result.ex_range) :
              rd_result.intensity[c][j] = rd_lines[i][c + 1].val

\* a line with no token, or whose first token is no number
Skippable(line) == line = <<>> \/ ~line[1].num

\* C7 as stated: a line after the header that is blank or starts with a
\* token that is no number is skipped without an error: nothing is added to
\* the emission grid or to the rows, and the next line is read.
C7_BlankAndFooterSkipped ==
  [][(rd_pc = "loop" /\ rd_pos < Len(rd_lines) /\ Skippable(rd_lines[rd_pos + 1])) =>
       /\ rd_pc' = "loop"
       /\ rd_pos' = rd_pos + 1
       /\ idx' = idx
       /\ data' = data]_vars

\* the values of the lines whose first token is a number, in file order
RECURSIVE NumericValues(_)
NumericValues(lines) ==
  IF lines = <<>> THEN <<>>
  ELSE IF lines[1] # <<>> /\ lines[1][1].num
       THEN <<lines[1][1].val>> \o NumericValues(Tail(lines))
       ELSE NumericValues(Tail(lines))

\* C8 as stated: after a header line, no later line makes the function
\* raise, and the list returned holds the values of the lines whose first
\* token is a number, in file order.
C8_UnparsableLinesSkipped ==
  (Len(ref_lines) >= 1 /\ ref_lines[1] # <<>>) =>
    /\ ref_pc # "raised"
    /\ (ref_pc = "done" => reference_data = NumericValues(Tail(ref_lines)))

\* C9 as stated, one step at a time: until the function has returned, its
\* next step moves it on (the line cursor, a counter or its position).
C9_AdvancesUntilReturn == pf_pc = "done" \/ ENABLED <<NextParafac>>_vars

====
